---------------------------- MODULE Spec2Model ----------------------------
(***************************************************************************)
(* Model of ultralytics/yolo/utils/callbacks/git_tags.py:                  *)
(* repository_tags(prefix, search_parent_directories, suppress).           *)
(*                                                                         *)
(* The repository on disk (its working tree, its facts, its submodules)    *)
(* is the environment of the call.  One call is a linear sequence of       *)
(* steps, one per statement of the function; a statement that raises ends  *)
(* the call.                                                               *)
(***************************************************************************)
EXTENDS Naturals, Sequences, FiniteSets, TLC

VARIABLES
    cwd,        \* where the process stands: "root", "subdir" or "outside"
    repo,       \* the repository on disk: worktree, facts, submodules
    fault,      \* the fact query of the VCS layer that raises (or none)
    args,       \* the arguments of the call in progress
    pc,         \* the statement the call is at
    prefix,     \* local variable prefix
    data,       \* local variable data
    subs,       \* the list repo.submodules gave to the for loop
    i,          \* number of submodules the for loop has processed
    log,        \* the queries issued to the VCS layer in this call, in order
    outcome,    \* how the call ended
    prev        \* the previous completed call (two-call specification only)

vars == <<cwd, repo, fault, args, pc, prefix, data, subs, i, log, outcome, prev>>

-----------------------------------------------------------------------------
(* Bounds and input sets *)

MaxSubs == 3

MaxPairSubs == 2

Prefixes == {"", "git", "exp", "git-submodule-yolov5"}

Cwds == {"root", "subdir", "outside"}

SeqsUpTo(S, n) == UNION {[1..k -> S] : k \in 0..n}

-----------------------------------------------------------------------------
(* Values of the VCS layer.  A branch is a Head object, a commit id and a  *)
(* URL are plain strings.                                                  *)

HeadRef(name) == [type |-> "Head", text |-> name]

PyStr(s) == [type |-> "str", text |-> s]

\* str(val): a Head prints as its name, a str is itself
StrNoCoercion(val) == val

Str(val) == [type |-> "str", text |-> val.text]

\* the submodule records: two that share the name yolov5 and differ in every
\* fact, and one of another name
Submodules ==
    { [name |-> "yolov5", branch |-> HeadRef("master"),
       hexsha |-> PyStr("6e04b94"),
       url |-> PyStr("https://github.com/ultralytics/yolov5")],
      [name |-> "yolov5", branch |-> HeadRef("release"),
       hexsha |-> PyStr("0c0ffee"),
       url |-> PyStr("https://example.com/fork/yolov5.git")],
      [name |-> "vendor-lib", branch |-> HeadRef("main"),
       hexsha |-> PyStr("deadbeef"),
       url |-> PyStr("https://example.com/vendor-lib.git")] }

\* the working tree: which kinds of change it holds, and whether the
\* dirtiness query can be answered at all
ChangeKinds == {"modified", "untracked", "submodule"}

WorkTrees ==
    { [readable |-> TRUE, changes |-> c] :
        c \in {{}} \cup {{k} : k \in ChangeKinds} }
    \cup { [readable |-> FALSE, changes |-> {}] }

RepoWith(w, s) ==
    [worktree   |-> w,
     branch     |-> HeadRef("add_mlflow"),
     hexsha     |-> PyStr("abc123"),
     origin     |-> PyStr("git@github.com:YoRigid/scenera-yolov5.git"),
     submodules |-> s]

Repos ==
    { RepoWith(w, s) : w \in WorkTrees, s \in SeqsUpTo(Submodules, MaxSubs) }

\* A call ends at the first query that raises, so an environment is
\* described by the one fact query that raises, if any.
NoFault == [q |-> "none", n |-> 0]

Faults(r) ==
    {NoFault}
    \cup { [q |-> q, n |-> 0] :
            q \in {"active_branch", "hexsha", "origin", "submodules"} }
    \cup { [q |-> q, n |-> n] :
            q \in {"sub_branch", "sub_hexsha", "sub_url"},
            n \in 1..Len(r.submodules) }

Query(q, n) == [q |-> q, n |-> n]

Args ==
    [prefix : Prefixes, search_parent_directories : BOOLEAN, suppress : BOOLEAN]

-----------------------------------------------------------------------------
(* Outcomes *)

NoOutcome == [status |-> "none", error |-> "", at |-> NoFault, value |-> <<>>]

Returned(mapping) ==
    [status |-> "returned", error |-> "", at |-> NoFault, value |-> mapping]

\* an exception leaving the function: there is no try/except in it, so the
\* locals built so far are dropped
PropagatePartial(kind, at, locals) ==
    [status |-> "returned", error |-> kind, at |-> at, value |-> locals]

Propagate(kind, at, locals) ==
    [status |-> "raised", error |-> kind, at |-> at, value |-> <<>>]

NoPrev ==
    [called |-> FALSE, prefix |-> "", suppress |-> FALSE,
     worktree |-> [readable |-> TRUE, changes |-> {}], outcome |-> NoOutcome]

-----------------------------------------------------------------------------
(* The helpers of the statements *)

\* Repo(search_parent_directories=...): the current directory is the root of
\* a repository, or lies inside one and the search may walk upward
RepoAlwaysFound(where, search_parent_directories) == TRUE

RepoFound(where, search_parent_directories) ==
    \/ where = "root"
    \/ where = "subdir" /\ search_parent_directories

\* repo.is_dirty(untracked_files, submodules)
IsDirty(w, untracked_files, submodules) ==
    \/ "modified" \in w.changes
    \/ untracked_files /\ "untracked" \in w.changes
    \/ submodules /\ "submodule" \in w.changes

\* the condition of the if statement of line 105
GateIgnoresSubmodules(w, suppress) == IsDirty(w, TRUE, FALSE) /\ ~suppress

GateIgnoresSuppress(w, suppress) == IsDirty(w, TRUE, TRUE)

Gate(w, suppress) == IsDirty(w, TRUE, TRUE) /\ ~suppress

\* prefix or "git"
KeepPrefix(p) == p

OrGit(p) == IF p = "" THEN "git" ELSE p

\* the f-strings
MainKey(p, field) == p \o "-" \o field

SubPrefixNoName(p, name) == p \o "-submodule"

SubPrefix(p, name) == p \o "-submodule-" \o name

\* a dict literal of three entries, and dict.update
Dict3(k1, v1, k2, v2, k3, v3) == (k3 :> v3) @@ (k2 :> v2) @@ (k1 :> v1)

UpdateKeepsOld(d, new) == d @@ new

Update(d, new) == new @@ d

\* {key: str(val) for key, val in data.items()}
Coerce(d) == [k \in DOMAIN d |-> Str(d[k])]

\* the queries an expression issues, cut after the one that raises
RECURSIVE UpTo(_, _)
UpTo(qs, f) ==
    IF qs = <<>> THEN <<>>
    ELSE IF Head(qs) = f THEN <<f>>
    ELSE <<Head(qs)>> \o UpTo(Tail(qs), f)

Hits(qs, f) == \E k \in 1..Len(qs) : qs[k] = f

\* lines 111-115 and 119-123: the entries of the main repository and of
\* one submodule
MainEntriesOf(p, r) ==
    Dict3(MainKey(p, "branch"), r.branch,
          MainKey(p, "hash"), r.hexsha,
          MainKey(p, "origin"), r.origin)

SubEntriesSwapped(p, s) ==
    Dict3(MainKey(SubPrefix(p, s.name), "branch"), s.hexsha,
          MainKey(SubPrefix(p, s.name), "hash"), s.branch,
          MainKey(SubPrefix(p, s.name), "origin"), s.url)

SubEntriesOf(p, s) ==
    Dict3(MainKey(SubPrefix(p, s.name), "branch"), s.branch,
          MainKey(SubPrefix(p, s.name), "hash"), s.hexsha,
          MainKey(SubPrefix(p, s.name), "origin"), s.url)

-----------------------------------------------------------------------------
(* The call, statement by statement *)

Fresh(a) ==
    /\ args = a
    /\ pc = "resolve"
    /\ prefix = a.prefix
    /\ data = <<>>
    /\ subs = <<>>
    /\ i = 0
    /\ log = <<>>
    /\ outcome = NoOutcome

Init ==
    /\ cwd \in Cwds
    /\ repo \in Repos
    /\ fault \in Faults(repo)
    /\ \E a \in Args : Fresh(a)
    /\ prev = NoPrev

Raise(kind, at) ==
    /\ outcome' = Propagate(kind, at, data)
    /\ pc' = "done"

\* line 104: repo = Repo(search_parent_directories=...)
Resolve ==
    /\ pc = "resolve"
    /\ IF RepoFound(cwd, args.search_parent_directories)
       THEN pc' = "check" /\ outcome' = outcome
       ELSE Raise("InvalidGitRepositoryError", Query("Repo", 0))
    /\ UNCHANGED <<cwd, repo, fault, args, prefix, data, subs, i, log, prev>>

\* lines 105-109: is_dirty is the left operand of the and, so it is
\* queried whatever suppress is
DirtyCheck ==
    /\ pc = "check"
    /\ log' = Append(log, Query("is_dirty", 0))
    /\ IF ~repo.worktree.readable
       THEN Raise("VcsQueryFailure", Query("is_dirty", 0))
       ELSE IF Gate(repo.worktree, args.suppress)
       THEN Raise("DirtyGitRepo", NoFault)
       ELSE pc' = "prefix" /\ outcome' = outcome
    /\ UNCHANGED <<cwd, repo, fault, args, prefix, data, subs, i, prev>>

\* line 110: prefix = prefix or "git"
NormalizePrefix ==
    /\ pc = "prefix"
    /\ prefix' = OrGit(prefix)
    /\ pc' = "main"
    /\ UNCHANGED <<cwd, repo, fault, args, data, subs, i, log, outcome, prev>>

\* lines 111-115: the dict literal queries branch, commit and origin in turn
MainEntries ==
    LET qs == <<Query("active_branch", 0), Query("hexsha", 0),
                Query("origin", 0)>>
    IN  /\ pc = "main"
        /\ log' = log \o UpTo(qs, fault)
        /\ IF Hits(qs, fault)
           THEN Raise("VcsQueryFailure", fault) /\ data' = data
           ELSE /\ data' = MainEntriesOf(prefix, repo)
                /\ pc' = "subs"
                /\ outcome' = outcome
        /\ UNCHANGED <<cwd, repo, fault, args, prefix, subs, i, prev>>

\* line 116: repo.submodules is evaluated once, before the first iteration
ListSubmodules ==
    /\ pc = "subs"
    /\ log' = Append(log, Query("submodules", 0))
    /\ IF fault = Query("submodules", 0)
       THEN Raise("VcsQueryFailure", fault) /\ subs' = subs
       ELSE subs' = repo.submodules /\ pc' = "loop" /\ outcome' = outcome
    /\ UNCHANGED <<cwd, repo, fault, args, prefix, data, i, prev>>

\* lines 117-124: one iteration of the for loop
SubmoduleEntries ==
    /\ pc = "loop"
    /\ i < Len(subs)
    /\ LET n  == i + 1
           qs == <<Query("sub_branch", n), Query("sub_hexsha", n),
                   Query("sub_url", n)>>
       IN  /\ log' = log \o UpTo(qs, fault)
           /\ IF Hits(qs, fault)
              THEN Raise("VcsQueryFailure", fault) /\ data' = data /\ i' = i
              ELSE /\ data' = Update(data, SubEntriesOf(prefix, subs[n]))
                   /\ i' = n
                   /\ pc' = pc
                   /\ outcome' = outcome
    /\ UNCHANGED <<cwd, repo, fault, args, prefix, subs, prev>>

\* line 126: return {key: str(val) for key, val in data.items()}
Return ==
    /\ pc = "loop"
    /\ i = Len(subs)
    /\ outcome' = Returned(Coerce(data))
    /\ pc' = "done"
    /\ UNCHANGED <<cwd, repo, fault, args, prefix, data, subs, i, log, prev>>

Next ==
    \/ Resolve
    \/ DirtyCheck
    \/ NormalizePrefix
    \/ MainEntries
    \/ ListSubmodules
    \/ SubmoduleEntries
    \/ Return

Spec == Init /\ [][Next]_vars

-----------------------------------------------------------------------------
(* What the properties speak of.  These definitions state expectations;    *)
(* they use none of the operators of the call.                             *)

Done == pc = "done"

\* a repository is resolvable from where the call stands
Located == cwd = "root" \/ (cwd = "subdir" /\ args.search_parent_directories)

CleanTree(w) == w.readable /\ w.changes = {}

DirtyTree(w) == w.readable /\ w.changes # {}

GatePassed == Located /\ repo.worktree.readable
              /\ (repo.worktree.changes = {} \/ args.suppress)

Effective(p) == IF p = "" THEN "git" ELSE p

Text(v) == [type |-> "str", text |-> v.text]

Fields == {"branch", "hash", "origin"}

Names(r) == {r.submodules[k].name : k \in 1..Len(r.submodules)}

DistinctNames(r) == Cardinality(Names(r)) = Len(r.submodules)

KeysFor(p, r) ==
    {p \o "-" \o f : f \in Fields}
    \cup {p \o "-submodule-" \o n \o "-" \o f : n \in Names(r), f \in Fields}

Has(m, key, v) == key \in DOMAIN m /\ m[key] = v

HoldsMain(m, p, r) ==
    /\ Has(m, p \o "-branch", Text(r.branch))
    /\ Has(m, p \o "-hash", Text(r.hexsha))
    /\ Has(m, p \o "-origin", Text(r.origin))

HoldsSub(m, p, sm) ==
    /\ Has(m, p \o "-submodule-" \o sm.name \o "-branch", Text(sm.branch))
    /\ Has(m, p \o "-submodule-" \o sm.name \o "-hash", Text(sm.hexsha))
    /\ Has(m, p \o "-submodule-" \o sm.name \o "-origin", Text(sm.url))

\* the record reported last among those of one name
LastNamed(r, name) ==
    r.submodules[CHOOSE k \in 1..Len(r.submodules) :
                    /\ r.submodules[k].name = name
                    /\ \A j \in (k+1)..Len(r.submodules) :
                          r.submodules[j].name # name]

NoMapping(o) == o.status = "raised" /\ DOMAIN o.value = {}

StartsWithGit(p) == Len(p) >= 4 /\ SubSeq(p, 1, 4) = "git-"

-----------------------------------------------------------------------------
(* C1. Dirty-tree gate: a call with suppress = false on a resolvable       *)
(* repository whose working tree holds a tracked modification, an          *)
(* untracked file or a dirty submodule ends in DirtyGitRepo and returns no *)
(* mapping, whatever the prefix and whatever the later queries would do.   *)
C1_DirtyTreeGate ==
    (Done /\ Located /\ DirtyTree(repo.worktree) /\ ~args.suppress)
        => /\ NoMapping(outcome)
           /\ outcome.error = "DirtyGitRepo"

\* a clean main repository with a dirty submodule, and a later query that
\* would have failed
C1_Witness ==
    /\ Done /\ Located /\ ~args.suppress
    /\ repo.worktree.changes = {"submodule"}
    /\ fault.q = "hexsha"
    /\ args.prefix = "exp"
    /\ outcome.error = "DirtyGitRepo"

-----------------------------------------------------------------------------
-----------------------------------------------------------------------------
-----------------------------------------------------------------------------
(* C6. No-repository error: when no repository is resolvable from the      *)
(* current directory the call ends in InvalidGitRepositoryError, for every *)
(* prefix and suppress, without a mapping and without having queried the   *)
(* repository; the kind is not DirtyGitRepo.                               *)
C6_NoRepository ==
    (Done /\ ~Located)
        => /\ NoMapping(outcome)
           /\ outcome.error = "InvalidGitRepositoryError"
           /\ outcome.error # "DirtyGitRepo"
           /\ log = <<>>

C6_Witness ==
    /\ Done /\ cwd = "outside" /\ ~args.search_parent_directories
    /\ repo.worktree.changes = {"untracked"} /\ ~args.suppress
    /\ outcome.error = "InvalidGitRepositoryError"

-----------------------------------------------------------------------------
(* C7. String coercion: every value of a returned mapping is a str, for    *)
(* main and submodule entries alike, although the branches were Head       *)
(* objects in data.                                                        *)
C7_StringCoercion ==
    outcome.status = "returned"
        => /\ DOMAIN outcome.value = DOMAIN data
           /\ \A k \in DOMAIN outcome.value :
                /\ outcome.value[k].type = "str"
                /\ outcome.value[k].text = data[k].text

C7_Witness ==
    /\ outcome.status = "returned"
    /\ DirtyTree(repo.worktree) /\ args.suppress
    /\ Len(repo.submodules) = 2
    /\ \E k \in DOMAIN data : data[k].type = "Head"

-----------------------------------------------------------------------------
(* C8. All-or-nothing: when a query fails during a call (resolution,       *)
(* dirtiness, branch, commit, origin, the enumeration of submodules or a   *)
(* submodule's branch, commit or URL), the call ends in that failure, the  *)
(* failing query is the last one issued, no query is issued twice and no   *)
(* mapping is returned.                                                    *)
C8_AllOrNothing ==
    /\ \A a, b \in 1..Len(log) : a # b => log[a] # log[b]
    /\ (Done /\ ~Located)
          => NoMapping(outcome) /\ outcome.at = [q |-> "Repo", n |-> 0]
    /\ (Done /\ Located /\ ~repo.worktree.readable)
          => /\ NoMapping(outcome)
             /\ outcome.at = [q |-> "is_dirty", n |-> 0]
             /\ log = <<outcome.at>>
    /\ (Done /\ GatePassed /\ fault # NoFault)
          => /\ NoMapping(outcome)
             /\ outcome.error = "VcsQueryFailure"
             /\ outcome.at = fault
             /\ log[Len(log)] = fault

\* the last query of the second submodule fails after six entries were built
C8_Witness ==
    /\ Done /\ GatePassed
    /\ fault = [q |-> "sub_url", n |-> 2]
    /\ Cardinality(DOMAIN data) = 6
    /\ NoMapping(outcome)

-----------------------------------------------------------------------------
(* C10. Duplicate submodule names: when two or more submodules share a     *)
(* name and the call gets as far as building the mapping, it returns       *)
(* without error; for every name the three entries are those of the record *)
(* reported last, and there are three keys per distinct name.              *)
C10_DuplicateNames ==
    (Done /\ GatePassed /\ fault = NoFault /\ ~DistinctNames(repo))
        => /\ outcome.status = "returned"
           /\ \A n \in Names(repo) :
                HoldsSub(outcome.value, Effective(args.prefix),
                         LastNamed(repo, n))
           /\ HoldsMain(outcome.value, Effective(args.prefix), repo)
           /\ DOMAIN outcome.value = KeysFor(Effective(args.prefix), repo)
           /\ Cardinality(DOMAIN outcome.value)
                 = 3 + 3 * Cardinality(Names(repo))

\* yolov5 twice with different facts, vendor-lib between them
C10_Witness ==
    /\ Done /\ outcome.status = "returned"
    /\ Len(repo.submodules) = 3
    /\ repo.submodules[1].name = "yolov5"
    /\ repo.submodules[1].hexsha.text = "0c0ffee"
    /\ repo.submodules[2].name = "vendor-lib"
    /\ repo.submodules[3].name = "yolov5"
    /\ repo.submodules[3].hexsha.text = "6e04b94"
    /\ args.prefix = ""
    /\ Has(outcome.value, "git-submodule-yolov5-hash",
           [type |-> "str", text |-> "6e04b94"])
    /\ Has(outcome.value, "git-submodule-vendor-lib-hash",
           [type |-> "str", text |-> "deadbeef"])

-----------------------------------------------------------------------------
(* Successive calls on the same repository: between two calls the working  *)
(* tree may change (files edited, stashed, restored) and the caller may    *)
(* pass another prefix and another suppress.  The facts of the repository  *)
(* stay what they are.                                                     *)

Recall ==
    /\ pc = "done"
    /\ prev' = [called |-> TRUE, prefix |-> args.prefix,
                suppress |-> args.suppress, worktree |-> repo.worktree,
                outcome |-> outcome]
    /\ \E w \in WorkTrees : repo' = [repo EXCEPT !.worktree = w]
    /\ \E p \in Prefixes, s \in BOOLEAN :
          /\ args' = [args EXCEPT !.prefix = p, !.suppress = s]
          /\ prefix' = p
    /\ pc' = "resolve"
    /\ data' = <<>>
    /\ subs' = <<>>
    /\ i' = 0
    /\ log' = <<>>
    /\ outcome' = NoOutcome
    /\ UNCHANGED <<cwd, fault>>

NextPair ==
    \/ Next
    \/ Recall

\* the two-call runs start in the root of a repository whose submodules
\* have distinct facts and may share a name
PairSubmodules ==
    { m \in Submodules : m.branch.text \in {"release", "main"} }

PairRepos ==
    { RepoWith(w, s) :
        w \in WorkTrees, s \in SeqsUpTo(PairSubmodules, MaxPairSubs) }

InitPair ==
    /\ cwd = "root"
    /\ repo \in PairRepos
    /\ fault \in Faults(repo)
    /\ \E a \in Args : ~a.search_parent_directories /\ Fresh(a)
    /\ prev = NoPrev

SpecPair == InitPair /\ [][NextPair]_vars

-----------------------------------------------------------------------------
(* Properties of two successive calls *)

SameRepository == prev.called /\ Located

\* the keys the default prefix builds for this repository
DefaultKeys == KeysFor("git", repo)

-----------------------------------------------------------------------------
(* C3. Suppress override: on a dirty repository whose queries succeed, a   *)
(* call with suppress = true returns a mapping; it holds the current       *)
(* branch, commit and origin and equals the mapping the call with the same *)
(* prefix returned when the repository was clean.                          *)
C3_SuppressOverride ==
    /\ (Done /\ Located /\ DirtyTree(repo.worktree) /\ args.suppress
             /\ fault = NoFault)
          => /\ outcome.status = "returned"
             /\ HoldsMain(outcome.value, Effective(args.prefix), repo)
             /\ \A n \in Names(repo) :
                  HoldsSub(outcome.value, Effective(args.prefix),
                           LastNamed(repo, n))
    /\ (Done /\ SameRepository /\ DirtyTree(repo.worktree) /\ args.suppress
             /\ fault = NoFault
             /\ CleanTree(prev.worktree) /\ ~prev.suppress
             /\ prev.prefix = args.prefix)
          => outcome = prev.outcome

C3_Witness ==
    /\ Done /\ SameRepository /\ args.suppress /\ fault = NoFault
    /\ repo.worktree.changes = {"modified"}
    /\ CleanTree(prev.worktree) /\ ~prev.suppress
    /\ prev.prefix = args.prefix
    /\ Len(repo.submodules) = 2
    /\ prev.outcome.status = "returned"
    /\ outcome.status = "returned"

-----------------------------------------------------------------------------
(* C4, as stated: a call with prefix "" ends as the call with prefix "git" *)
(* does; a call with another non-empty prefix p maps p-hash to the commit  *)
(* and its mapping holds no key that the default prefix builds.            *)
C4_AsStated ==
    /\ (Done /\ SameRepository
             /\ {prev.prefix, args.prefix} = {"", "git"}
             /\ prev.suppress = args.suppress
             /\ prev.worktree = repo.worktree)
          => outcome = prev.outcome
    /\ (Done /\ outcome.status = "returned" /\ args.prefix \notin {"", "git"})
          => /\ Has(outcome.value, args.prefix \o "-hash", Text(repo.hexsha))
             /\ DOMAIN outcome.value \cap DefaultKeys = {}

(* C4, amended: the same, except that the mapping of a call with prefix p  *)
(* is free of git-branch, git-hash and git-origin always, and free of      *)
(* every key the default prefix builds when p does not begin with "git-".  *)
C4_PrefixNormalisation ==
    /\ (Done /\ SameRepository
             /\ {prev.prefix, args.prefix} = {"", "git"}
             /\ prev.suppress = args.suppress
             /\ prev.worktree = repo.worktree)
          => outcome = prev.outcome
    /\ (Done /\ outcome.status = "returned" /\ args.prefix \in {"", "git"})
          => Has(outcome.value, "git-hash", Text(repo.hexsha))
    /\ (Done /\ outcome.status = "returned" /\ args.prefix \notin {"", "git"})
          => /\ Has(outcome.value, args.prefix \o "-hash", Text(repo.hexsha))
             /\ DOMAIN outcome.value
                   \cap {"git-branch", "git-hash", "git-origin"} = {}
             /\ ~StartsWithGit(args.prefix)
                   => DOMAIN outcome.value \cap DefaultKeys = {}

C4_Witness ==
    /\ Done /\ SameRepository
    /\ prev.prefix = "" /\ args.prefix = "git"
    /\ prev.suppress = args.suppress
    /\ prev.worktree = repo.worktree
    /\ Len(repo.submodules) = 1
    /\ outcome.status = "returned"
    /\ Has(outcome.value, "git-hash", [type |-> "str", text |-> "abc123"])

-----------------------------------------------------------------------------
(* C9, as stated: with suppress = true the dirtiness check plays no part:  *)
(* two calls with suppress = true and the same prefix on repositories that *)
(* differ only in what the dirtiness query answers, a failure of that      *)
(* query included, end the same way.                                       *)
C9_SuppressBypassesCheck ==
    (Done /\ SameRepository /\ args.suppress /\ prev.suppress
          /\ prev.prefix = args.prefix)
        => outcome = prev.outcome

=============================================================================
